---- MODULE Spec2Model ----
(***************************************************************************)
(* Model of scim2-models: the PATCH application engine                     *)
(* (scim2_models/messages/patch_op.py), the path resolution helper it uses *)
(* (scim2_models/urn.py), the path API Path.get / Path.set / Path.delete   *)
(* (scim2_models/path.py), the context driven field serializer and the     *)
(* validators (scim2_models/base.py), the serializer of the schemas list   *)
(* (scim2_models/resources/resource.py) and the conversion of exceptions   *)
(* to and from Error messages (scim2_models/exceptions.py).                *)
(*                                                                         *)
(* A resource is a User-like instance bound to one extension:              *)
(*   nickName : Optional[str]                                              *)
(*   name     : Optional[Name]          Name.familyName : Optional[str]    *)
(*   emails   : Optional[list[Email]]   Email.value, Email.primary         *)
(*   ext      : Optional[Ext]           Ext.dept : Optional[str]           *)
(* Python's None is the string "None" for scalar fields and the flag       *)
(* present = FALSE for object and list fields (None and [] are distinct).  *)
(***************************************************************************)
EXTENDS Integers, Sequences, FiniteSets, TLC

VARIABLES
    resource,     \* the resource instance handed to PatchOp.patch, mutated in place
    operations,   \* PatchOp.operations
    idx,          \* position of the for loop of PatchOp.patch (next operation)
    modified,     \* local variable `modified` of PatchOp.patch
    status,       \* patch: "running", "returned", "raised"; path API calls:
                  \* "calling", "call raised"; model_dump, model_validate:
                  \* "idle"; PatchOp validation: "received", "rejected"
    result,       \* the value returned by patch
    res0,         \* history: the resource as it was when patch was called
    log,          \* history: resource, changed flag and error of every applied operation
    ser,          \* the arguments and the output of model_dump (SpecDump)
    validation,   \* the arguments and the outcome of Resource.model_validate
                  \* (SpecValidate)
    req,          \* the context and the outcome of the validation of the
                  \* PatchOp (SpecPatchValidate, SpecRequest)
    conv          \* an exception, an Error message or two paths, and what
                  \* the conversions and the comparison made of them
                  \* (SpecConvert)

vars == <<resource, operations, idx, modified, status, result, res0, log, ser, validation, req, conv>>

----------------------------------------------------------------------------
(* Bounds *)

MaxOps == 2      \* longest operations list
MaxLen == 2      \* longest emails list of the resource before the patch
MaxVals == 2     \* longest list carried as the value of one operation

----------------------------------------------------------------------------
(* Values *)

None == "None"

\* Python values carried by an operation, tagged by their Python type.
NoneV == [t |-> "none"]
StrV(s) == [t |-> "str", s |-> s]
\* A raw dict for an element of the multi-valued attribute.  Form "canon"
\* spells its keys as model_dump spells them; form "alt" spells them in
\* another way that validation accepts and normalises: the keys "$ref" and
\* "streetAddress" of the value of an operation reach patch as "ref" and
\* "streetaddress" (BaseModel.normalize_attribute_names rewrites the keys of
\* the dicts nested in a validated payload).
DictV(v, p, form) == [t |-> "dict", form |-> form, value |-> v, primary |-> p]
\* an Email instance
ModelV(v, p) == [t |-> "model", value |-> v, primary |-> p]
ListV(items) == [t |-> "list", items |-> items]
\* a dict of root attributes, here {"nickName": s}
RootDictV(s) == [t |-> "rootdict", nickName |-> s]
\* a complex object (Name, Ext) read from a field
ObjV(o) == [t |-> "obj", o |-> o]

\* An Email element as stored on the resource.
Email(v, p) == [value |-> v, primary |-> p]
Emails == {Email(v, p) : v \in {"a", "b"}, p \in BOOLEAN}

AbsentList == [present |-> FALSE, items |-> <<>>]
PresentList(items) == [present |-> TRUE, items |-> items]
AbsentName == [present |-> FALSE, familyName |-> None]
AbsentExt == [present |-> FALSE, dept |-> None]

SeqsUpTo(S, n) == UNION {[1..k -> S] : k \in 0..n}

----------------------------------------------------------------------------
(* Paths and operations *)

CoreSchema == "urn:core:User"
ExtSchema == "urn:ext:Ext"
UnknownSchema == "urn:unknown:X"
\* a URN no class declares, whose text starts with the URN of the extension
BeyondSchema == "urn:ext:ExtX"

\* A path text, split where the code splits it: `urn` is the text before the
\* last ':' ("" when the path holds no ':'), `parts` the dotted segments
\* after it.  has = FALSE is PatchOperation.path = None.
Path(urn, parts) == [has |-> TRUE, urn |-> urn, parts |-> parts]
NoPath == [has |-> FALSE, urn |-> "", parts |-> <<>>]

Op(op, path, value) == [op |-> op, path |-> path, value |-> value]

\* Resource.schemas of the instance (the class default).
Schemas == {CoreSchema}

\* model_fields of each class.
ModelFields(cls) ==
    CASE cls = "User" -> {"nickName", "name", "emails", "Ext"}
      [] cls = "Name" -> {"familyName"}
      [] cls = "Ext" -> {"dept"}

\* The class of the object held at a location of the resource tree.
TypeOf(loc) ==
    CASE loc = "root" -> "User"
      [] loc = "name" -> "Name"
      [] loc = "ext" -> "Ext"

Outcome(res, changed, err) == [res |-> res, changed |-> changed, err |-> err]

----------------------------------------------------------------------------
(* utils.py, base.py: field access *)

\* n.upper(), n.lower() and _to_camel(n) of a field name n
Spellings(n) ==
    CASE n = "nick_name" -> {"NICK_NAME", "nick_name", "nickName"}
      [] n = "family_name" -> {"FAMILY_NAME", "family_name", "familyName"}
      [] n = "name" -> {"NAME", "name"}

\* _normalize_attribute_name: the text without its non-alphanumerical
\* characters (kept when the text holds a ':'), in lower case.  Before it,
\* the text as it is.
_keep_attribute_name(text) ==
    text

_normalize_attribute_name(text) ==
    CASE text \in {"id", "ID"} -> "id"
      [] text \in {"userName", "user_name", "USERNAME"} -> "username"
      [] text \in {"nickName", "nick_name", "NICK_NAME"} -> "nickname"
      [] text \in {"familyName", "family_name", "FAMILY_NAME"} -> "familyname"
      [] text \in {"name", "NAME"} -> "name"
      [] text \in {"schemas", "SCHEMAS"} -> "schemas"
      [] text \in {"immutable", "IMMUTABLE"} -> "immutable"
      [] text = "unknownField" -> "unknownfield"
      [] text = "Ext" -> "ext"
      [] text = "X:dept" -> "x:dept"
      [] OTHER -> text

\* _find_field_name: the field of the class whose normalised name is the
\* normalised attribute name, or None.
_find_field_name(cls, attr_name) ==
    LET found == {field_key \in ModelFields(cls) :
                     _normalize_attribute_name(field_key)
                         = _normalize_attribute_name(attr_name)}
    IN  IF found = {} THEN None ELSE CHOOSE field_key \in found : TRUE

get_field_multiplicity(cls, field_name) ==
    cls = "User" /\ field_name = "emails"

\* BaseModel.get_field_root_type: the class left once Optional[] and list[]
\* are stripped from the field's annotation.
get_field_root_type(cls, field_name) ==
    CASE cls = "User" /\ field_name = "name" -> "Name"
      [] cls = "User" /\ field_name = "Ext" -> "Ext"
      [] cls = "User" /\ field_name = "emails" -> "Email"
      [] OTHER -> "str"

ScalarV(s) == IF s = None THEN NoneV ELSE StrV(s)

\* getattr(obj, field_name), obj being the object at `loc`.
GetAttr(res, loc, field_name) ==
    CASE loc = "root" /\ field_name = "nickName" -> ScalarV(res.nickName)
      [] loc = "root" /\ field_name = "name" ->
            IF res.name.present THEN ObjV("name") ELSE NoneV
      [] loc = "root" /\ field_name = "Ext" ->
            IF res.ext.present THEN ObjV("ext") ELSE NoneV
      [] loc = "root" /\ field_name = "emails" ->
            IF res.emails.present
            THEN ListV([k \in 1..Len(res.emails.items) |->
                          ModelV(res.emails.items[k].value,
                                 res.emails.items[k].primary)])
            ELSE NoneV
      [] loc = "name" /\ field_name = "familyName" -> ScalarV(res.name.familyName)
      [] loc = "ext" /\ field_name = "dept" -> ScalarV(res.ext.dept)

\* Pydantic's validation of a value assigned to a field
\* (validate_assignment = True): does the value fit the field's type?
FitsField(loc, field_name, v) ==
    CASE loc = "root" /\ field_name = "emails" ->
            \/ v.t = "none"
            \/ /\ v.t = "list"
               /\ \A k \in 1..Len(v.items) : v.items[k].t \in {"dict", "model"}
      [] loc = "root" /\ field_name \in {"name", "Ext"} ->
            v.t \in {"none", "new"}
      [] OTHER -> v.t \in {"none", "str"}

\* The validated value as stored: dicts become Email instances whatever the
\* spelling of their keys (BaseModel.normalize_attribute_names).
StoredList(v) ==
    IF v.t = "none" THEN AbsentList
    ELSE PresentList([k \in 1..Len(v.items) |->
                        Email(v.items[k].value, v.items[k].primary)])

StoredScalar(v) == IF v.t = "none" THEN None ELSE v.s

\* setattr(obj, field_name, v) where the value fits.
SetAttr(res, loc, field_name, v) ==
    CASE loc = "root" /\ field_name = "nickName" ->
            [res EXCEPT !.nickName = StoredScalar(v)]
      [] loc = "root" /\ field_name = "emails" ->
            [res EXCEPT !.emails = StoredList(v)]
      [] loc = "root" /\ field_name = "name" ->
            [res EXCEPT !.name = IF v.t = "none" THEN AbsentName
                                 ELSE [present |-> TRUE, familyName |-> None]]
      [] loc = "root" /\ field_name = "Ext" ->
            [res EXCEPT !.ext = IF v.t = "none" THEN AbsentExt
                                ELSE [present |-> TRUE, dept |-> None]]
      [] loc = "name" /\ field_name = "familyName" ->
            [res EXCEPT !.name.familyName = StoredScalar(v)]
      [] loc = "ext" /\ field_name = "dept" ->
            [res EXCEPT !.ext.dept = StoredScalar(v)]

\* A freshly built instance of a complex class, parent_class().
NewV == [t |-> "new"]

\* Python's == between a value read from a field and an operation's value.
\* A model instance never equals a dict; lists compare element by element.
PyEqItem(x, y) ==
    CASE x.t = "none" /\ y.t = "none" -> TRUE
      [] x.t = "str" /\ y.t = "str" -> x.s = y.s
      [] x.t = "model" /\ y.t = "model" ->
            x.value = y.value /\ x.primary = y.primary
      [] x.t = "dict" /\ y.t = "dict" -> x = y
      [] OTHER -> FALSE

PyEq(x, y) ==
    IF x.t = "list" /\ y.t = "list"
    THEN /\ Len(x.items) = Len(y.items)
         /\ \A k \in 1..Len(x.items) : PyEqItem(x.items[k], y.items[k])
    ELSE x.t # "list" /\ y.t # "list" /\ PyEqItem(x, y)

----------------------------------------------------------------------------
(* urn.py *)

\* _resolve_path_to_target, with _normalize_path and
\* _get_or_create_extension_instance: the target object (a location, or None)
\* and the resource, on which the extension slot was created if it was
\* absent.  Below the root the object is no Resource and the path holds no
\* ':', so the target is the object itself.
_resolve_path_to_target(res, loc, urn) ==
    IF loc # "root" \/ urn = "" \/ urn \in Schemas
    THEN [res |-> res, target |-> loc]
    ELSE IF urn = ExtSchema
    THEN [res |-> IF res.ext.present THEN res
                  ELSE [res EXCEPT !.ext = [present |-> TRUE, dept |-> None]],
          target |-> "ext"]
    ELSE [res |-> res, target |-> None]

----------------------------------------------------------------------------
(* messages/patch_op.py: values *)

\* to_dict of _values_match: model_dump() of an instance (camelCase keys,
\* None values left out), any other value as it is.
ToDict(v) ==
    IF v.t = "model" THEN DictV(v.value, v.primary, "canon") ELSE v

_values_match(value1, value2) == ToDict(value1) = ToDict(value2)

_value_exists_in_list(current_list, new_value) ==
    \E k \in 1..Len(current_list) : _values_match(current_list[k], new_value)

\* [v for v in values if keep(v)], in order
RECURSIVE FilterSeq(_, _)
FilterSeq(values, keep) ==
    IF values = <<>> THEN <<>>
    ELSE (IF Head(values) \in keep THEN <<Head(values)>> ELSE <<>>)
            \o FilterSeq(Tail(values), keep)

SeqRange(q) == {q[k] : k \in 1..Len(q)}

\* getattr(resource, field_name) or []
CurrentList(res, loc, field_name) ==
    LET cur == GetAttr(res, loc, field_name)
    IN  IF cur.t = "list" THEN cur.items ELSE <<>>

\* setattr with validate_assignment: a validation error leaves the object as
\* it was.
Assign(res, loc, field_name, v) ==
    IF FitsField(loc, field_name, v)
    THEN Outcome(SetAttr(res, loc, field_name, v), TRUE, "")
    ELSE Outcome(res, FALSE, "validation")

_add_multiple_values(res, loc, field_name, current_list, values) ==
    LET new_values ==
            FilterSeq(values, {v \in SeqRange(values) :
                                 ~_value_exists_in_list(current_list, v)})
    IN  IF new_values = <<>> THEN Outcome(res, FALSE, "")
        ELSE Assign(res, loc, field_name, ListV(current_list \o new_values))

\* The values modelled for a single add are dicts and instances, which fit
\* the element type.
_add_single_value(res, loc, field_name, current_list, value) ==
    IF _value_exists_in_list(current_list, value) THEN Outcome(res, FALSE, "")
    ELSE Assign(res, loc, field_name, ListV(Append(current_list, value)))

_handle_multivalued_add(res, loc, field_name, value) ==
    LET current_list == CurrentList(res, loc, field_name)
    IN  IF value.t = "list"
        THEN _add_multiple_values(res, loc, field_name, current_list, value.items)
        ELSE _add_single_value(res, loc, field_name, current_list, value)

_is_multivalued_field(loc, field_name) ==
    get_field_multiplicity(TypeOf(loc), field_name)

_set_simple_attribute(res, loc, attr_name, value, is_add) ==
    LET field_name == _find_field_name(TypeOf(loc), attr_name)
    IN  IF field_name = None THEN Outcome(res, FALSE, "noTarget")
        ELSE IF is_add /\ _is_multivalued_field(loc, field_name)
        THEN _handle_multivalued_add(res, loc, field_name, value)
        ELSE IF PyEq(GetAttr(res, loc, field_name), value)
        THEN Outcome(res, FALSE, "")
        ELSE Assign(res, loc, field_name, value)

----------------------------------------------------------------------------
(* messages/patch_op.py: add and replace *)

\* What the code does when it is handed, as the object to work on, a field
\* value that is no model instance: an empty list or string is falsy
\* ("if not target": invalid path), any other has no model_fields
\* (AttributeError out of _find_field_name).
NonModelTarget(res, parent) ==
    IF (parent.t = "list" /\ parent.items = <<>>) \/ (parent.t = "str" /\ parent.s = "")
    THEN Outcome(res, FALSE, "invalidPath")
    ELSE Outcome(res, FALSE, "AttributeError")

\* _create_parent_object: instantiate the field's root type and assign it.
\* Before it, the same creating nothing.
_create_no_parent_object(res, loc, parent_field_name) ==
    Outcome(res, FALSE, "")

_create_parent_object(res, loc, parent_field_name) ==
    LET parent_class == get_field_root_type(TypeOf(loc), parent_field_name)
    IN  IF parent_class = "str"
        THEN Assign(res, loc, parent_field_name, StrV(""))
        ELSE Assign(res, loc, parent_field_name, NewV)

RECURSIVE _set_value_at_path(_, _, _, _, _, _)
_set_complex_attribute(res, loc, path_parts, value, is_add) ==
    LET parent_field_name == _find_field_name(TypeOf(loc), Head(path_parts))
    IN  IF parent_field_name = None THEN Outcome(res, FALSE, "noTarget")
        ELSE
        LET parent_obj == GetAttr(res, loc, parent_field_name)
            created == IF parent_obj.t = "none"
                       THEN _create_parent_object(res, loc, parent_field_name)
                       ELSE Outcome(res, FALSE, "")
            res1 == created.res
            parent == GetAttr(res1, loc, parent_field_name)
        IN  IF created.err # "" THEN created
            ELSE IF parent.t = "obj"
            THEN _set_value_at_path(res1, parent.o, "", Tail(path_parts), value, is_add)
            ELSE NonModelTarget(res1, parent)

_set_value_at_path(res, loc, urn, path_parts, value, is_add) ==
    LET r == _resolve_path_to_target(res, loc, urn)
    IN  IF r.target = None THEN Outcome(r.res, FALSE, "invalidPath")
        ELSE IF path_parts = <<>>
        THEN \* an empty attribute path: the value must be a dict, merged
             \* into the target through model_validate
             IF value.t = "rootdict" /\ r.target = "root"
             THEN Outcome([r.res EXCEPT !.nickName = value.nickName], TRUE, "")
             ELSE IF value.t \in {"dict", "rootdict"}
             THEN Outcome(r.res, FALSE, "validation")
             ELSE Outcome(r.res, FALSE, "invalidPath")
        ELSE IF Len(path_parts) = 1
        THEN _set_simple_attribute(r.res, r.target, path_parts[1], value, is_add)
        ELSE _set_complex_attribute(r.res, r.target, path_parts, value, is_add)

\* _apply_root_attributes: merge the recognised keys of a dict into the
\* root; a value that is no dict changes nothing.  The dicts modelled hold
\* either the key nickName or keys (value, primary) that name no root field.
_apply_root_attributes(res, value) ==
    IF value.t # "rootdict" THEN Outcome(res, FALSE, "")
    ELSE LET field_name == _find_field_name("User", "nickName")
             val == StrV(value.nickName)
         IN  IF ~PyEq(GetAttr(res, "root", field_name), val)
             THEN Assign(res, "root", field_name, val)
             ELSE Outcome(res, FALSE, "")

_apply_add_replace(res, operation) ==
    IF operation.path.has
    THEN _set_value_at_path(res, "root", operation.path.urn, operation.path.parts,
                            operation.value, operation.op = "add")
    ELSE _apply_root_attributes(res, operation.value)

----------------------------------------------------------------------------
(* messages/patch_op.py: remove *)

RECURSIVE _remove_value_at_path(_, _, _, _)
_remove_value_at_path(res, loc, urn, path_parts) ==
    LET r == _resolve_path_to_target(res, loc, urn)
    IN  IF path_parts = <<>> \/ r.target = None
        THEN Outcome(r.res, FALSE, "invalidPath")
        ELSE
        LET field_name == _find_field_name(TypeOf(r.target), Head(path_parts))
        IN  IF field_name = None THEN Outcome(r.res, FALSE, "noTarget")
            ELSE
            LET parent_obj == GetAttr(r.res, r.target, field_name)
            IN  IF parent_obj.t = "none" THEN Outcome(r.res, FALSE, "")
                ELSE IF Tail(path_parts) = <<>>
                THEN Assign(r.res, r.target, field_name, NoneV)
                ELSE IF parent_obj.t = "obj"
                THEN _remove_value_at_path(r.res, parent_obj.o, "", Tail(path_parts))
                ELSE NonModelTarget(r.res, parent_obj)

\* _remove_specific_value without its "if modified" test: the filtered list is
\* stored and True returned whether or not an element matched
_remove_specific_value_unconditional(res, urn, path_parts, value_to_remove) ==
    LET r == _resolve_path_to_target(res, "root", urn)
    IN  IF path_parts = <<>> \/ r.target = None
        THEN Outcome(r.res, FALSE, "invalidPath")
        ELSE
        LET field_name == IF Len(path_parts) = 1
                          THEN _find_field_name(TypeOf(r.target), path_parts[1])
                          ELSE None
        IN  IF field_name = None THEN Outcome(r.res, FALSE, "noTarget")
            ELSE
            LET current_list == GetAttr(r.res, r.target, field_name)
            IN  IF current_list.t # "list" THEN Outcome(r.res, FALSE, "")
                ELSE
                LET new_list ==
                        FilterSeq(current_list.items,
                                  {item \in SeqRange(current_list.items) :
                                     ~_values_match(item, value_to_remove)})
                    out == Assign(r.res, r.target, field_name,
                                  IF new_list = <<>> THEN NoneV ELSE ListV(new_list))
                IN  Outcome(out.res, out.err = "", out.err)

\* _remove_specific_value looks the whole attribute path up as one field
\* name: a dotted path names no field.
_remove_specific_value(res, urn, path_parts, value_to_remove) ==
    LET r == _resolve_path_to_target(res, "root", urn)
    IN  IF path_parts = <<>> \/ r.target = None
        THEN Outcome(r.res, FALSE, "invalidPath")
        ELSE
        LET field_name == IF Len(path_parts) = 1
                          THEN _find_field_name(TypeOf(r.target), path_parts[1])
                          ELSE None
        IN  IF field_name = None THEN Outcome(r.res, FALSE, "noTarget")
            ELSE
            LET current_list == GetAttr(r.res, r.target, field_name)
            IN  IF current_list.t # "list" THEN Outcome(r.res, FALSE, "")
                ELSE
                LET new_list ==
                        FilterSeq(current_list.items,
                                  {item \in SeqRange(current_list.items) :
                                     ~_values_match(item, value_to_remove)})
                IN  IF Len(new_list) # Len(current_list.items)
                    THEN Assign(r.res, r.target, field_name,
                                IF new_list = <<>> THEN NoneV ELSE ListV(new_list))
                    ELSE Outcome(r.res, FALSE, "")

_apply_remove(res, operation) ==
    IF ~operation.path.has THEN Outcome(res, FALSE, "invalidPath")
    ELSE IF operation.value.t # "none"
    THEN _remove_specific_value(res, operation.path.urn, operation.path.parts,
                                operation.value)
    ELSE _remove_value_at_path(res, "root", operation.path.urn, operation.path.parts)

_apply_operation(res, operation) ==
    IF operation.op \in {"add", "replace"} THEN _apply_add_replace(res, operation)
    ELSE IF operation.op = "remove" THEN _apply_remove(res, operation)
    ELSE Outcome(res, FALSE, "invalidValue")

----------------------------------------------------------------------------
(* path.py: Path.set and Path.delete *)

\* _to_comparable: model_dump() of an instance, any other value as it is
_to_comparable(v) ==
    IF v.t = "model" THEN DictV(v.value, v.primary, "canon") ELSE v

_value_in_list(current_list, new_value) ==
    \E k \in 1..Len(current_list) :
        _to_comparable(current_list[k]) = _to_comparable(new_value)

\* path_str[len(schema):] for the schema URNs of the model: the text of
\* `urn` left once `schema` is taken from its front, None when `urn` does
\* not start with `schema` ("urn:ext:ExtX".startswith("urn:ext:Ext")).
SchemaSuffix(urn, schema) ==
    CASE urn = schema -> ""
      [] urn = BeyondSchema /\ schema = ExtSchema -> "X"
      [] OTHER -> None

\* Path._resolve_instance: the object the schema prefix of the path names,
\* the segments of the path left after the prefix, and the resource, on
\* which the extension slot was created if `create` asked for it.
\* found = FALSE is the None returned for an absent extension; err is set
\* for a prefix that names no schema of the resource.  What is left of the
\* URN after the schema stays in front of the first segment.
_resolve_instance(res, path, create) ==
    LET left(schema) ==
            IF SchemaSuffix(path.urn, schema) = "" \/ path.parts = <<>>
            THEN path.parts
            ELSE <<SchemaSuffix(path.urn, schema) \o ":" \o Head(path.parts)>>
                     \o Tail(path.parts)
    IN  IF path.urn = ""
        THEN [res |-> res, found |-> TRUE, target |-> "root",
              path_str |-> path.parts, err |-> ""]
        ELSE IF SchemaSuffix(path.urn, CoreSchema) # None
        THEN [res |-> res, found |-> TRUE, target |-> "root",
              path_str |-> left(CoreSchema), err |-> ""]
        ELSE IF SchemaSuffix(path.urn, ExtSchema) # None
        THEN IF res.ext.present
             THEN [res |-> res, found |-> TRUE, target |-> "ext",
                   path_str |-> left(ExtSchema), err |-> ""]
             ELSE IF create
             THEN [res |-> [res EXCEPT !.ext = [present |-> TRUE, dept |-> None]],
                   found |-> TRUE, target |-> "ext",
                   path_str |-> left(ExtSchema), err |-> ""]
             ELSE [res |-> res, found |-> FALSE, target |-> None,
                   path_str |-> <<>>, err |-> ""]
        ELSE [res |-> res, found |-> FALSE, target |-> None,
              path_str |-> <<>>, err |-> "invalidPath"]

\* Path._set_field_value
_set_field_value(res, loc, field_name, value, is_add) ==
    LET is_multivalued == get_field_multiplicity(TypeOf(loc), field_name)
        current_list == CurrentList(res, loc, field_name)
    IN  IF is_add /\ is_multivalued
        THEN IF value.t = "list"
             THEN LET new_values ==
                          FilterSeq(value.items,
                                    {v \in SeqRange(value.items) :
                                       ~_value_in_list(current_list, v)})
                  IN  IF new_values = <<>> THEN Outcome(res, FALSE, "")
                      ELSE Assign(res, loc, field_name,
                                  ListV(current_list \o new_values))
             ELSE IF _value_in_list(current_list, value)
             THEN Outcome(res, FALSE, "")
             ELSE Assign(res, loc, field_name, ListV(Append(current_list, value)))
        ELSE
        LET wrapped == IF is_multivalued /\ value.t \notin {"list", "none"}
                       THEN ListV(<<value>>) ELSE value
        IN  IF PyEq(GetAttr(res, loc, field_name), wrapped)
            THEN Outcome(res, FALSE, "")
            ELSE Assign(res, loc, field_name, wrapped)

\* The loop of Path._set over the segments before the last: an absent
\* intermediate object is created, a list ends the call with False.
RECURSIVE SetBelow(_, _, _, _, _)
SetBelow(res, loc, parts, value, is_add) ==
    LET field_name == _find_field_name(TypeOf(loc), Head(parts))
    IN  IF field_name = None THEN Outcome(res, FALSE, "invalidPath")
        ELSE IF Tail(parts) = <<>>
        THEN _set_field_value(res, loc, field_name, value, is_add)
        ELSE
        LET sub_obj == GetAttr(res, loc, field_name)
            created == IF sub_obj.t = "none"
                       THEN _create_parent_object(res, loc, field_name)
                       ELSE Outcome(res, FALSE, "")
            cur == GetAttr(created.res, loc, field_name)
        IN  IF created.err # "" THEN created
            ELSE IF cur.t = "list" /\ sub_obj.t # "none"
            THEN Outcome(res, FALSE, "")
            ELSE IF cur.t = "obj"
            THEN SetBelow(created.res, cur.o, Tail(parts), value, is_add)
            ELSE Outcome(created.res, FALSE, "AttributeError")

\* Path._set.  With no attribute left in the path the recognised keys of a
\* dict are merged into the target; the dicts modelled hold either the key
\* nickName or keys that name no field of the root.
_set(res, path, value, is_add) ==
    LET r == _resolve_instance(res, path, TRUE)
    IN  IF r.err # "" THEN Outcome(r.res, FALSE, r.err)
        ELSE IF r.path_str = <<>>
        THEN IF value.t = "rootdict" /\ r.target = "root"
                /\ r.res.nickName # value.nickName
             THEN Outcome([r.res EXCEPT !.nickName = value.nickName], TRUE, "")
             ELSE IF value.t \notin {"rootdict", "dict"} /\ path.urn # ""
             THEN Outcome(r.res, FALSE, "invalidPath")
             ELSE Outcome(r.res, FALSE, "")
        ELSE SetBelow(r.res, r.target, r.path_str, value, is_add)

\* Path._walk_to_target: the object holding the last segment and the field
\* that segment names; found = FALSE when an intermediate object is None.
RECURSIVE _walk_to_target(_, _, _)
_walk_to_target(res, loc, parts) ==
    LET field_name == _find_field_name(TypeOf(loc), Head(parts))
    IN  IF field_name = None
        THEN [found |-> FALSE, obj |-> None, field_name |-> None,
              err |-> "invalidPath"]
        ELSE IF Tail(parts) = <<>>
        THEN [found |-> TRUE, obj |-> loc, field_name |-> field_name, err |-> ""]
        ELSE
        LET cur == GetAttr(res, loc, field_name)
        IN  IF cur.t = "none"
            THEN [found |-> FALSE, obj |-> None, field_name |-> None, err |-> ""]
            ELSE IF cur.t = "obj"
            THEN _walk_to_target(res, cur.o, Tail(parts))
            ELSE [found |-> FALSE, obj |-> None, field_name |-> None,
                  err |-> "AttributeError"]

\* Path._delete
_delete(res, path, value) ==
    LET r == _resolve_instance(res, path, FALSE)
    IN  IF r.err # "" THEN Outcome(res, FALSE, r.err)
        ELSE IF ~r.found THEN Outcome(res, FALSE, "")
        ELSE IF r.path_str = <<>> THEN Outcome(res, FALSE, "invalidPath")
        ELSE
        LET w == _walk_to_target(res, r.target, r.path_str)
        IN  IF w.err # "" THEN Outcome(res, FALSE, w.err)
            ELSE IF ~w.found THEN Outcome(res, FALSE, "")
            ELSE
            LET current_value == GetAttr(res, w.obj, w.field_name)
            IN  IF current_value.t = "none" THEN Outcome(res, FALSE, "")
                ELSE IF value.t = "none"
                THEN Assign(res, w.obj, w.field_name, NoneV)
                ELSE IF current_value.t # "list" THEN Outcome(res, FALSE, "")
                ELSE
                LET new_list ==
                        FilterSeq(current_value.items,
                                  {item \in SeqRange(current_value.items) :
                                     _to_comparable(item) # _to_comparable(value)})
                IN  IF Len(new_list) = Len(current_value.items)
                    THEN Outcome(res, FALSE, "")
                    ELSE Assign(res, w.obj, w.field_name,
                                IF new_list = <<>> THEN NoneV ELSE ListV(new_list))

\* Path._get: the value read, or the error raised
Got(value, err) == [value |-> value, err |-> err]

_get(res, path) ==
    LET r == _resolve_instance(res, path, FALSE)
    IN  IF r.err # "" THEN Got(NoneV, r.err)
        ELSE IF ~r.found THEN Got(NoneV, "")
        ELSE IF r.path_str = <<>> THEN Got(ObjV(r.target), "")
        ELSE
        LET w == _walk_to_target(res, r.target, r.path_str)
        IN  IF w.err # "" THEN Got(NoneV, w.err)
            ELSE IF ~w.found THEN Got(NoneV, "")
            ELSE Got(GetAttr(res, w.obj, w.field_name), "")

\* A direct call of the path API for an operation record: Path(path).set(
\* resource, value, is_add = (op = "add")) or Path(path).delete(resource,
\* value); a record without path is the empty path.
PathCall(res, call) ==
    IF call.op = "remove" THEN _delete(res, call.path, call.value)
    ELSE _set(res, call.path, call.value, call.op = "add")

----------------------------------------------------------------------------
(* Inputs *)

EmailDicts == {DictV(e.value, e.primary, f) : e \in Emails, f \in {"canon", "alt"}}
CanonDicts == {d \in EmailDicts : d.form = "canon"}
ListValues == {ListV(q) : q \in SeqsUpTo(CanonDicts, MaxVals)}

NickPath == Path("", <<"nickName">>)
NamePath == Path("", <<"name">>)
FamilyPath == Path("", <<"name", "familyName">>)
EmailsPath == Path("", <<"emails">>)
DeptPath == Path(ExtSchema, <<"dept">>)
BogusPath == Path("", <<"bogus">>)
\* a path with a segment after the multi-valued attribute
EmailValuePath == Path("", <<"emails", "value">>)
UnknownPath == Path(UnknownSchema, <<"dept">>)

RemoveOps ==
    {Op("remove", p, NoneV) :
        p \in {NickPath, NamePath, FamilyPath, EmailsPath, DeptPath, BogusPath,
               UnknownPath, NoPath}}
    \cup {Op("remove", EmailsPath, d) : d \in EmailDicts}

AddOps ==
    {Op("add", p, StrV("b")) : p \in {NickPath, FamilyPath, DeptPath}}
    \cup {Op("add", EmailsPath, v) : v \in EmailDicts \cup ListValues}
    \cup {Op("add", NoPath, RootDictV("b"))}

ReplaceOps ==
    {Op("replace", p, StrV("b")) : p \in {NickPath, FamilyPath, DeptPath}}
    \cup {Op("replace", EmailsPath, v) : v \in EmailDicts \cup ListValues}
    \cup {Op("replace", NoPath, RootDictV("b"))}

Operations == RemoveOps \cup AddOps \cup ReplaceOps

\* The operations that carry no list and no alternative spelling.
CoreOperations ==
    {o \in Operations :
        \/ o.value.t \in {"none", "str", "rootdict"}
        \/ o.op = "add" /\ o.value \in CanonDicts}

Resources ==
    [nickName : {None, "a"},
     name : {AbsentName, [present |-> TRUE, familyName |-> "a"]},
     emails : {AbsentList} \cup {PresentList(q) : q \in SeqsUpTo(Emails, MaxLen)},
     ext : {AbsentExt, [present |-> TRUE, dept |-> "a"]}]

\* A user with a nickname and a name and no extension data yet.
CoreResources ==
    {r \in Resources : r.nickName = "a" /\ r.name.present /\ ~r.ext.present}

----------------------------------------------------------------------------
(* PatchOp.patch *)

NoSer == [done |-> FALSE]

InitWith(someResources, someLists) ==
    /\ resource \in someResources
    /\ operations \in someLists
    /\ idx = 1
    /\ modified = FALSE
    /\ status = "running"
    /\ result = FALSE
    /\ res0 = resource
    /\ log = <<>>
    /\ ser = NoSer
    /\ validation = [done |-> FALSE]
    /\ req = [done |-> FALSE]
    /\ conv = [made |-> <<>>]

\* any short list of core operations
Init == InitWith(CoreResources, SeqsUpTo(CoreOperations, MaxOps))

\* any single operation, once or repeated, through patch or as direct calls
\* of the path API
InitRepeat ==
    /\ resource \in Resources
    /\ operations \in {<<>>} \cup {<<o>> : o \in Operations}
                      \cup {<<o, o>> : o \in Operations}
    /\ idx = 1
    /\ modified = FALSE
    /\ status \in {"running", "calling"}
    /\ result = FALSE
    /\ res0 = resource
    /\ log = <<>>
    /\ ser = NoSer
    /\ validation = [done |-> FALSE]
    /\ req = [done |-> FALSE]
    /\ conv = [made |-> <<>>]

\* "if not self.operations: return False"
ReturnEmpty ==
    /\ status = "running"
    /\ operations = <<>>
    /\ status' = "returned"
    /\ result' = FALSE
    /\ UNCHANGED <<resource, operations, idx, modified, res0, log, ser, validation, req, conv>>

\* the operation the loop is at, taken from the front of the list
CurrentOperationFromEnd == operations[Len(operations) + 1 - idx]
CurrentOperation == operations[idx]

\* "if self._apply_operation(resource, operation): modified = True"
AccumulateLast(flag, changed) == changed
Accumulate(flag, changed) == flag \/ changed

\* The resource is mutated in place and patch catches nothing: what an
\* operation did before it raised stays, and so does what the operations
\* before it did.
ResourceRestored(out) == IF out.err # "" THEN res0 ELSE out.res
ResourceLeft(out) == out.res

\* One turn of "for operation in self.operations": the operation is applied
\* to the resource; an exception leaves the loop and patch.
ApplyOperation ==
    /\ status = "running"
    /\ idx <= Len(operations)
    /\ LET out == _apply_operation(resource, CurrentOperation)
       IN  /\ resource' = ResourceLeft(out)
           /\ log' = Append(log, [res |-> out.res, changed |-> out.changed,
                                  err |-> out.err])
           /\ IF out.err # ""
              THEN /\ status' = "raised"
                   /\ UNCHANGED <<idx, modified>>
              ELSE /\ status' = status
                   /\ idx' = idx + 1
                   /\ modified' = Accumulate(modified, out.changed)
    /\ UNCHANGED <<operations, result, res0, ser, validation, req, conv>>

\* "return modified", once the loop has run through the operations
ReturnModified ==
    /\ status = "running"
    /\ operations # <<>>
    /\ idx > Len(operations)
    /\ status' = "returned"
    /\ result' = modified
    /\ UNCHANGED <<resource, operations, idx, modified, res0, log, ser, validation, req, conv>>

Next == ReturnEmpty \/ ApplyOperation \/ ReturnModified

\* Path.set: the next call, when it is a set
PathSet ==
    /\ status = "calling"
    /\ idx <= Len(operations)
    /\ operations[idx].op \in {"add", "replace"}
    /\ LET out == PathCall(resource, operations[idx])
       IN  /\ resource' = out.res
           /\ log' = Append(log, [res |-> out.res, changed |-> out.changed,
                                  err |-> out.err])
           /\ status' = IF out.err # "" THEN "call raised" ELSE status
           /\ idx' = IF out.err # "" THEN idx ELSE idx + 1
    /\ UNCHANGED <<operations, modified, result, res0, ser, validation, req, conv>>

\* Path.delete: the next call, when it is a delete
PathDelete ==
    /\ status = "calling"
    /\ idx <= Len(operations)
    /\ operations[idx].op = "remove"
    /\ LET out == PathCall(resource, operations[idx])
       IN  /\ resource' = out.res
           /\ log' = Append(log, [res |-> out.res, changed |-> out.changed,
                                  err |-> out.err])
           /\ status' = IF out.err # "" THEN "call raised" ELSE status
           /\ idx' = IF out.err # "" THEN idx ELSE idx + 1
    /\ UNCHANGED <<operations, modified, result, res0, ser, validation, req, conv>>

NextRepeat == Next \/ PathSet \/ PathDelete

\* Path.get, called with its default strict = True: the next call, when
\* it is a get
PathGet ==
    /\ status = "calling"
    /\ idx <= Len(operations)
    /\ operations[idx].op = "get"
    /\ LET out == _get(resource, operations[idx].path)
       IN  /\ log' = Append(log, [res |-> resource, changed |-> FALSE,
                                  err |-> out.err, got |-> out.value])
           /\ status' = IF out.err # "" THEN "call raised" ELSE status
           /\ idx' = IF out.err # "" THEN idx ELSE idx + 1
    /\ UNCHANGED <<resource, operations, modified, result, res0, ser, validation, req, conv>>

\* One operation through patch, or one call of get, set or delete: the
\* operations of the patch, a get through every path, the calls through
\* emails.value and through the URN that extends the URN of the extension,
\* and the calls through every spelling of nick_name and name.family_name.
ResolveOperations ==
    LET ValueOf(op) == IF op \in {"add", "replace"} THEN StrV("b") ELSE NoneV
        Calls == {"get", "add", "replace", "remove"}
    IN  Operations
        \cup {Op("get", p, NoneV) :
                 p \in {NickPath, NamePath, FamilyPath, EmailsPath, DeptPath,
                        BogusPath, UnknownPath}}
        \cup {Op(op, p, ValueOf(op)) :
                 op \in Calls, p \in {EmailValuePath, Path(BeyondSchema, <<"dept">>)}}
        \cup {Op(op, Path("", <<n>>), ValueOf(op)) :
                 op \in Calls, n \in Spellings("nick_name")}
        \cup {Op(op, Path("", <<n, m>>), ValueOf(op)) :
                 op \in Calls, n \in Spellings("name"), m \in Spellings("family_name")}

InitResolve ==
    /\ resource \in Resources
    /\ operations \in {<<>>} \cup {<<o>> : o \in ResolveOperations}
    /\ idx = 1
    /\ modified = FALSE
    /\ status \in {"running", "calling"}
    /\ status = "running" => \A k \in 1..Len(operations) : operations[k].op # "get"
    /\ result = FALSE
    /\ res0 = resource
    /\ log = <<>>
    /\ ser = NoSer
    /\ validation = [done |-> FALSE]
    /\ req = [done |-> FALSE]
    /\ conv = [made |-> <<>>]

NextResolve == NextRepeat \/ PathGet

SpecResolve == InitResolve /\ [][NextResolve]_vars

Spec == Init /\ [][Next]_vars

SpecRepeat == InitRepeat /\ [][NextRepeat]_vars

TypeOK == status \in {"running", "returned", "raised", "calling", "call raised", "idle", "received", "rejected"}

----------------------------------------------------------------------------
(* context.py, base.py: serialization *)

Contexts ==
    {"DEFAULT",
     "RESOURCE_CREATION_REQUEST", "RESOURCE_CREATION_RESPONSE",
     "RESOURCE_QUERY_REQUEST", "RESOURCE_QUERY_RESPONSE",
     "RESOURCE_REPLACEMENT_REQUEST", "RESOURCE_REPLACEMENT_RESPONSE",
     "SEARCH_REQUEST", "SEARCH_RESPONSE",
     "RESOURCE_PATCH_REQUEST", "RESOURCE_PATCH_RESPONSE"}

is_request(ctx) ==
    ctx \in {"RESOURCE_CREATION_REQUEST", "RESOURCE_QUERY_REQUEST",
             "RESOURCE_REPLACEMENT_REQUEST", "SEARCH_REQUEST",
             "RESOURCE_PATCH_REQUEST"}

is_response(ctx) ==
    ctx \in {"RESOURCE_CREATION_RESPONSE", "RESOURCE_QUERY_RESPONSE",
             "RESOURCE_REPLACEMENT_RESPONSE", "SEARCH_RESPONSE",
             "RESOURCE_PATCH_RESPONSE"}

Mutability == {"readOnly", "readWrite", "immutable", "writeOnly"}
Returned == {"always", "never", "default", "request"}

\* The serialized field, a sub-attribute of it, and another attribute of the
\* same resource, as normalised attribute URNs.
FieldUrn == "urn:core:user:f"
SubUrn == "urn:core:user:f.sub"
OtherUrn == "urn:core:user:g"
Urns == {FieldUrn, SubUrn, OtherUrn}

\* contains_attribute_or_subattributes: the URN is in the list, or an item
\* of the list starts with it followed by "." or ":" (of the URNs modelled,
\* SubUrn below FieldUrn).  Before it, the exact test alone, without the
\* test of the sub-attributes.
contains_attribute(attribute_urns, attribute_urn) ==
    attribute_urn \in attribute_urns

contains_attribute_or_subattributes(attribute_urns, attribute_urn) ==
    \/ attribute_urn \in attribute_urns
    \/ \E item \in attribute_urns : item = SubUrn /\ attribute_urn = FieldUrn

scim_request_serializer(value, mutability, scim_ctx) ==
    IF /\ scim_ctx \in {"RESOURCE_CREATION_REQUEST", "RESOURCE_REPLACEMENT_REQUEST"}
       /\ mutability = "readOnly"
    THEN None
    ELSE IF /\ scim_ctx \in {"RESOURCE_QUERY_REQUEST", "SEARCH_REQUEST"}
            /\ mutability = "writeOnly"
    THEN None
    ELSE value

\* scim_response_serializer without its test of Returned.never
scim_response_serializer_without_never(value, returnability, attribute_urn, included_urns, excluded_urns) ==
    IF /\ returnability = "default"
       /\ \/ /\ included_urns # {}
             /\ ~contains_attribute_or_subattributes(included_urns, attribute_urn)
          \/ attribute_urn \in excluded_urns
    THEN None
    ELSE IF returnability = "request" /\ attribute_urn \notin included_urns
    THEN None
    ELSE value

scim_response_serializer(value, returnability, attribute_urn, included_urns, excluded_urns) ==
    IF returnability = "never" THEN None
    ELSE IF /\ returnability = "default"
            /\ \/ /\ included_urns # {}
                  /\ ~contains_attribute_or_subattributes(included_urns, attribute_urn)
               \/ attribute_urn \in excluded_urns
    THEN None
    ELSE IF returnability = "request" /\ attribute_urn \notin included_urns
    THEN None
    ELSE value

\* scim_ctx is None for a plain Pydantic dump: neither serializer runs.
scim_serializer(value, mutability, returnability, attribute_urn, scim_ctx, included_urns, excluded_urns) ==
    LET v1 == IF scim_ctx # None /\ is_request(scim_ctx)
              THEN scim_request_serializer(value, mutability, scim_ctx)
              ELSE value
    IN  IF scim_ctx # None /\ is_response(scim_ctx)
        THEN scim_response_serializer(v1, returnability, attribute_urn,
                                      included_urns, excluded_urns)
        ELSE v1

\* model_serializer_exclude_none: the keys of the dumped dict, one for every
\* field whose serialized value is not None.  Before it, the same without the
\* filter: every key is kept.
model_serializer_keep_none(fields) == DOMAIN fields

model_serializer_exclude_none(fields) ==
    {key \in DOMAIN fields : fields[key] # None}

\* Resource.set_extension_schemas, the serializer of the field schemas:
\* self.schemas followed by the URN of every extension of the class that
\* self.schemas does not hold (extension_schemas is the keys of
\* get_extension_models()).
set_extension_schemas(self_schemas, extension_schemas) ==
    self_schemas \o FilterSeq(extension_schemas,
                              {schema \in SeqRange(extension_schemas) :
                                  schema \notin SeqRange(self_schemas)})

\* A dump to make: the context, the annotations and the value of f (None or
\* an instance), the value of f.sub, the attributes and excluded_attributes
\* lists, and the schemas field of the instance.
Dumps ==
    {d \in [done : {FALSE},
            schemas : {<<CoreSchema>>, <<CoreSchema, ExtSchema>>},
            scim_ctx : Contexts \cup {None},
            mutability : Mutability,
            returnability : Returned,
            value : {None, "x"},
            sub : {None, "y"},
            attributes : SUBSET Urns,
            excluded_attributes : SUBSET Urns] :
        d.value = None => d.sub = None}

\* resource.model_dump(scim_ctx=..., attributes=..., excluded_attributes=...)
\* on a resource no patch is running on
InitDump ==
    /\ resource \in {r \in Resources :
                        r.nickName = "a" /\ r.name.present /\ ~r.emails.present}
    /\ operations = <<>>
    /\ idx = 1
    /\ modified = FALSE
    /\ status = "idle"
    /\ result = FALSE
    /\ res0 = resource
    /\ log = <<>>
    /\ ser \in Dumps
    /\ validation = [done |-> FALSE]
    /\ req = [done |-> FALSE]
    /\ conv = [made |-> <<>>]

\* The dumped resource has the complex attribute f, whose class has the one
\* sub-attribute sub, annotated with the defaults of both annotations.
\* The dump of the instance held by f: the keys of its dict.
DumpSub(d) ==
    model_serializer_exclude_none(
        [sub |-> scim_serializer(d.sub, "readWrite", "default", SubUrn,
                                 d.scim_ctx, d.attributes,
                                 d.excluded_attributes)])

\* The dump of the resource: f is serialized by its handler first (the dict
\* of the instance, whatever it holds), then by scim_serializer.  The keys of
\* the whole output, the nested one as a dotted name.
DumpRoot(d) ==
    LET keys == model_serializer_exclude_none(
                    [f |-> scim_serializer(d.value, d.mutability,
                                           d.returnability, FieldUrn,
                                           d.scim_ctx, d.attributes,
                                           d.excluded_attributes)])
    IN  keys \cup (IF "f" \in keys /\ "sub" \in DumpSub(d)
                   THEN {"f.sub"} ELSE {})

\* model_dump returns the dict; it has no path that raises for a field.
model_dump ==
    /\ status = "idle"
    /\ ~ser.done
    /\ ser' = [done |-> TRUE,
               scim_ctx |-> ser.scim_ctx,
               mutability |-> ser.mutability,
               returnability |-> ser.returnability,
               value |-> ser.value,
               sub |-> ser.sub,
               attributes |-> ser.attributes,
               excluded_attributes |-> ser.excluded_attributes,
               schemas |-> ser.schemas,
               schemas_out |-> set_extension_schemas(ser.schemas, <<ExtSchema>>),
               out |-> DumpRoot(ser)]
    /\ UNCHANGED <<resource, operations, idx, modified, status, result, res0, log, validation, req, conv>>

NextDump == model_dump

SpecDump == InitDump /\ [][NextDump]_vars

----------------------------------------------------------------------------
(* base.py: validation of a resource payload *)

\* The validated class is a Resource with the field f, annotated with one
\* Mutability, one Returned and one Required; the payload leaves f out
\* ("absent"), gives it null (None) or a value.  original is the instance
\* passed as original=, with the value of its f, or none given.
Original(v) == [given |-> TRUE, f |-> v]
Unbuilt == "unbuilt"

Validated(value, err) == [value |-> value, err |-> err]

\* The field validator: it runs for a field the payload holds.
check_request_attributes_mutability(value, mutability, scim_ctx) ==
    IF scim_ctx = None \/ ~is_request(scim_ctx)
    THEN Validated(value, "")
    ELSE IF /\ scim_ctx \in {"RESOURCE_QUERY_REQUEST", "SEARCH_REQUEST"}
            /\ mutability = "writeOnly"
    THEN Validated(Unbuilt, "mutability_error")
    ELSE IF /\ scim_ctx \in {"RESOURCE_CREATION_REQUEST",
                             "RESOURCE_REPLACEMENT_REQUEST"}
            /\ mutability = "readOnly"
    THEN Validated(None, "")
    ELSE Validated(value, "")

\* handler(value) of the innermost model validator: the instance is built
\* from the payload, a field left out takes its default None and is not
\* validated.
BuildInstance(payload, mutability, scim_ctx) ==
    IF payload = "absent"
    THEN Validated(None, "")
    ELSE check_request_attributes_mutability(payload, mutability, scim_ctx)

check_response_attributes_returnability(built, returnability, scim_ctx) ==
    IF built.err # "" THEN built
    ELSE IF scim_ctx = None \/ ~is_response(scim_ctx) THEN built
    ELSE IF returnability = "always" /\ built.value = None
    THEN Validated(Unbuilt, "returned_error")
    ELSE IF returnability = "never" /\ built.value # None
    THEN Validated(Unbuilt, "returned_error")
    ELSE built

check_response_attributes_necessity(built, required, scim_ctx) ==
    IF built.err # "" THEN built
    ELSE IF scim_ctx \notin {"RESOURCE_CREATION_REQUEST",
                             "RESOURCE_REPLACEMENT_REQUEST"}
    THEN built
    ELSE IF required /\ built.value = None
    THEN Validated(Unbuilt, "required_error")
    ELSE built

\* check_mutability_issues without the comparison of the immutable fields
check_mutability_issues_without_comparison(original, replacement, mutability) ==
    ""

check_mutability_issues(original, replacement, mutability) ==
    IF mutability = "immutable" /\ original.f # replacement
    THEN "mutability_error"
    ELSE ""

check_replacement_request_mutability(built, mutability, scim_ctx, original) ==
    IF built.err # "" THEN built
    ELSE IF scim_ctx = "RESOURCE_REPLACEMENT_REQUEST" /\ original.given
    THEN LET err == check_mutability_issues(original, built.value, mutability)
         IN  IF err # "" THEN Validated(Unbuilt, err) ELSE built
    ELSE built

\* cls.model_validate(payload, scim_ctx=..., original=...): the ValueError of
\* a replacement without original comes before Pydantic builds anything; the
\* model validators then wrap one another, the last defined outermost.
model_validate(v) ==
    IF v.scim_ctx = "RESOURCE_REPLACEMENT_REQUEST" /\ ~v.original.given
    THEN Validated(Unbuilt, "ValueError")
    ELSE check_replacement_request_mutability(
             check_response_attributes_necessity(
                 check_response_attributes_returnability(
                     BuildInstance(v.payload, v.mutability, v.scim_ctx),
                     v.returnability, v.scim_ctx),
                 v.required, v.scim_ctx),
             v.mutability, v.scim_ctx, v.original)

Validations ==
    [done : {FALSE},
     scim_ctx : Contexts \cup {None},
     mutability : Mutability,
     returnability : Returned,
     required : BOOLEAN,
     payload : {"absent", None, "x", "y"},
     original : {[given |-> FALSE], Original(None), Original("x")}]

InitValidate ==
    /\ resource \in {r \in CoreResources : ~r.emails.present}
    /\ operations = <<>>
    /\ idx = 1
    /\ modified = FALSE
    /\ status = "idle"
    /\ result = FALSE
    /\ res0 = resource
    /\ log = <<>>
    /\ ser = NoSer
    /\ validation \in Validations
    /\ req = [done |-> FALSE]
    /\ conv = [made |-> <<>>]

Validate ==
    /\ status = "idle"
    /\ ~validation.done
    /\ LET out == model_validate(validation)
       IN  validation' = [done |-> TRUE,
                   scim_ctx |-> validation.scim_ctx,
                   mutability |-> validation.mutability,
                   returnability |-> validation.returnability,
                   required |-> validation.required,
                   payload |-> validation.payload,
                   original |-> validation.original,
                   value |-> out.value,
                   err |-> out.err]
    /\ UNCHANGED <<resource, operations, idx, modified, status, result, res0, log, ser, req, conv>>

NextValidate == Validate

SpecValidate == InitValidate /\ [][NextValidate]_vars

----------------------------------------------------------------------------
(* patch_op.py, utils.py: validation of a PatchOp *)

\* The class a PatchOp is bound to: PatchOp[User], PatchOp[Dummy] (the
\* resource of test_immutable_field), or None for a bare PatchOp.

\* resource_class.model_fields: its keys are the Python names of the fields.
ModelFieldKeys(cls) ==
    CASE cls = "User" -> {"schemas", "id", "user_name", "name", "nick_name",
                          "emails", "groups", "Ext"}
      [] cls = "Dummy" -> {"schemas", "id", "immutable"}

\* get_field_annotation(field_name, Mutability), read_write by default
FieldMutability(cls, field_name) ==
    CASE field_name \in {"id", "groups"} -> "readOnly"
      [] cls = "Dummy" /\ field_name = "immutable" -> "immutable"
      [] OTHER -> "readWrite"

\* get_field_annotation(field_name, Required) = Required.true
FieldRequired(cls, field_name) == field_name \in {"schemas", "user_name"}

\* utils._find_field_name on the keys: the field an attribute name stands
\* for, whatever its spelling, or None.
FindFieldKey(cls, attr_name) ==
    LET found == {field_key \in ModelFieldKeys(cls) :
                     _normalize_attribute_name(field_key)
                         = _normalize_attribute_name(attr_name)}
    IN  IF found = {} THEN None ELSE CHOOSE field_key \in found : TRUE

\* path[0].isdigit()
StartsWithDigit(text) == text \in {"1bad"}

\* The URNs of the model stand for URNs of four segments or more.
_validate_scim_urn_syntax(path) ==
    /\ path.parts # <<>>
    /\ ~StartsWithDigit(path.parts[1])

_validate_scim_path_syntax(path) ==
    /\ path.parts # <<>>
    /\ ~(path.urn = "" /\ StartsWithDigit(path.parts[1]))
    /\ path.urn # "" => _validate_scim_urn_syntax(path)

\* The text after the last ':' of a URN path, whole; else the text before
\* the first '.'.
_extract_field_name(path) ==
    IF path.urn # ""
    THEN IF ~_validate_scim_urn_syntax(path) THEN None
         ELSE IF Len(path.parts) = 1 THEN path.parts[1]
         ELSE path.parts[1] \o "." \o path.parts[2]
    ELSE path.parts[1]

\* The errors are named after Error.make_..._error.
_validate_mutability(operation, resource_class, field_name) ==
    IF field_name \notin ModelFieldKeys(resource_class) THEN ""
    ELSE IF /\ FieldMutability(resource_class, field_name) = "readOnly"
            /\ operation.op \in {"add", "replace"}
    THEN "mutability"
    ELSE IF /\ FieldMutability(resource_class, field_name) = "immutable"
            /\ operation.op = "replace"
    THEN "mutability"
    ELSE ""

_validate_required_attribute(operation, resource_class, field_name) ==
    IF operation.op # "remove" THEN ""
    ELSE IF field_name \notin ModelFieldKeys(resource_class) THEN ""
    ELSE IF FieldRequired(resource_class, field_name) THEN "invalidValue"
    ELSE ""

\* validate_operation_requirements without its test of the context
validate_operation_requirements_in_every_context(operation, scim_ctx) ==
    IF operation.path.has /\ ~_validate_scim_path_syntax(operation.path)
    THEN "invalidPath"
    ELSE IF ~operation.path.has /\ operation.op = "remove"
    THEN "invalidPath"
    ELSE IF operation.op = "add" /\ operation.value = NoneV
    THEN "invalidValue"
    ELSE ""

validate_operation_requirements(operation, scim_ctx) ==
    IF scim_ctx # "RESOURCE_PATCH_REQUEST" THEN ""
    ELSE IF operation.path.has /\ ~_validate_scim_path_syntax(operation.path)
    THEN "invalidPath"
    ELSE IF ~operation.path.has /\ operation.op = "remove"
    THEN "invalidPath"
    ELSE IF operation.op = "add" /\ operation.value = NoneV
    THEN "invalidValue"
    ELSE ""

\* The validation of the operations field: every PatchOperation is
\* validated, the first error is the one kept.
RECURSIVE ValidateOperationList(_, _)
ValidateOperationList(ops, scim_ctx) ==
    IF ops = <<>> THEN ""
    ELSE LET err == validate_operation_requirements(Head(ops), scim_ctx)
         IN  IF err # "" THEN err
             ELSE ValidateOperationList(Tail(ops), scim_ctx)

\* The loop of validate_operations.
RECURSIVE ValidateAgainstClass(_, _)
ValidateAgainstClass(ops, resource_class) ==
    IF ops = <<>> THEN ""
    ELSE IF ~Head(ops).path.has
    THEN ValidateAgainstClass(Tail(ops), resource_class)
    ELSE LET field_name == _extract_field_name(Head(ops).path)
             mut == _validate_mutability(Head(ops), resource_class, field_name)
             req_err == _validate_required_attribute(Head(ops), resource_class,
                                                     field_name)
         IN  IF mut # "" THEN mut
             ELSE IF req_err # "" THEN req_err
             ELSE ValidateAgainstClass(Tail(ops), resource_class)

\* An empty list of the model is PatchOp.operations = None.
validate_operations(ops, resource_class, scim_ctx) ==
    IF scim_ctx = "RESOURCE_PATCH_REQUEST" /\ ops = <<>> THEN "invalidValue"
    ELSE IF resource_class = None \/ ops = <<>> THEN ""
    ELSE ValidateAgainstClass(ops, resource_class)

\* PatchOp[cls].model_validate(payload, context={"scim": scim_ctx}): the
\* fields first, then the model validator.
ValidatePatchOpModel(ops, resource_class, scim_ctx) ==
    LET err == ValidateOperationList(ops, scim_ctx)
    IN  IF err # "" THEN err
        ELSE validate_operations(ops, resource_class, scim_ctx)

\* The paths of validated operations, in several spellings.
SpelledPaths ==
    {Path("", <<t>>) :
        t \in {"id", "ID", "userName", "user_name", "schemas", "SCHEMAS",
               "immutable", "IMMUTABLE", "groups", "nickName", "unknownField",
               "1bad"}}
    \cup {Path("", <<"groups", "value">>), Path(CoreSchema, <<"id">>),
          Path(CoreSchema, <<"userName">>), Path(ExtSchema, <<"dept">>),
          NoPath}

SpelledOperations ==
    {Op(op, path, value) :
        op \in {"add", "replace", "remove"},
        path \in SpelledPaths,
        value \in {NoneV, StrV("b")}}

Requests(someClasses, someContexts) ==
    [done : {FALSE}, resource_class : someClasses, scim_ctx : someContexts]

InitPatchValidate ==
    /\ resource \in {r \in CoreResources : ~r.emails.present}
    /\ operations \in {<<>>} \cup {<<o>> : o \in SpelledOperations}
                      \cup {<<Op("replace", NickPath, StrV("b")), o>> : o \in SpelledOperations}
    /\ idx = 1
    /\ modified = FALSE
    /\ status = "received"
    /\ result = FALSE
    /\ res0 = resource
    /\ log = <<>>
    /\ ser = NoSer
    /\ validation = [done |-> FALSE]
    /\ req \in Requests({"User", "Dummy", None}, Contexts \cup {None})
    /\ conv = [made |-> <<>>]

\* The PatchOp is validated; an accepted one is ready for patch.
ValidatePatchOp ==
    /\ status = "received"
    /\ LET err == ValidatePatchOpModel(operations, req.resource_class,
                                       req.scim_ctx)
       IN  /\ req' = [done |-> TRUE,
                      resource_class |-> req.resource_class,
                      scim_ctx |-> req.scim_ctx,
                      err |-> err]
           /\ status' = IF err = "" THEN "running" ELSE "rejected"
    /\ UNCHANGED <<resource, operations, idx, modified, result, res0, log, ser, validation, conv>>

NextPatchValidate == ValidatePatchOp

SpecPatchValidate == InitPatchValidate /\ [][NextPatchValidate]_vars

\* A PatchOp[User] received in a context, validated, then applied.

InitRequest ==
    /\ resource \in {r \in CoreResources : ~r.emails.present}
    /\ operations \in SeqsUpTo(CoreOperations, MaxOps)
    /\ idx = 1
    /\ modified = FALSE
    /\ status = "received"
    /\ result = FALSE
    /\ res0 = resource
    /\ log = <<>>
    /\ ser = NoSer
    /\ validation = [done |-> FALSE]
    /\ req \in Requests({"User"}, {None, "DEFAULT", "RESOURCE_PATCH_REQUEST"})
    /\ conv = [made |-> <<>>]

NextRequest == ValidatePatchOp \/ ReturnEmpty \/ ApplyOperation \/ ReturnModified

SpecRequest == InitRequest /\ [][NextRequest]_vars

----------------------------------------------------------------------------
(* exceptions.py, messages/error.py, path.py: conversions and comparison *)

\* exception_class(detail=detail): an instance of one of the classes
\* SCIMException, InvalidPathException, PathNotFoundException and
\* UniquenessException, with the status and the scim_type of its class;
\* `detail` is the property detail, and str() of the exception: the detail
\* given, or the default detail of the class.
SCIMException(cls, detail) ==
    [t |-> "exception",
     cls |-> cls,
     status |-> IF cls = "UniquenessException" THEN 409 ELSE 400,
     scim_type |-> CASE cls \in {"InvalidPathException", "PathNotFoundException"}
                          -> "invalidPath"
                     [] cls = "UniquenessException" -> "uniqueness"
                     [] OTHER -> "",
     detail |-> IF detail \notin {None, ""} THEN detail ELSE "default of " \o cls]

\* SCIMException.to_error
to_error(exc) ==
    [t |-> "error",
     status |-> exc.status,
     scim_type |-> IF exc.scim_type = "" THEN None ELSE exc.scim_type,
     detail |-> exc.detail]

\* SCIMException.from_error, called on the base class: the class is looked
\* up in _SCIM_TYPE_TO_EXCEPTION, the base class standing for a scim_type
\* the table does not hold.
from_error(error) ==
    SCIMException(CASE error.scim_type = "invalidPath" -> "InvalidPathException"
                    [] error.scim_type = "uniqueness" -> "UniquenessException"
                    [] OTHER -> "SCIMException",
                  error.detail)

\* str.lower of the path texts
lower(text) ==
    CASE text \in {"userName", "USERNAME", "username"} -> "username"
      [] text \in {"emails.value", "EMAILS.VALUE"} -> "emails.value"
      [] text = "nickName" -> "nickname"

\* Path.__eq__: Path defines none, it is the one of UserString, which
\* compares the texts.
__eq__(self_data, other_data) ==
    self_data = other_data

\* An exception to convert to an Error and back, an Error to convert to an
\* exception and back, or two paths to compare.
InitConvert ==
    /\ resource \in {r \in CoreResources : ~r.emails.present}
    /\ operations = <<>>
    /\ idx = 1
    /\ modified = FALSE
    /\ status = "idle"
    /\ result = FALSE
    /\ res0 = resource
    /\ log = <<>>
    /\ ser = NoSer
    /\ validation = [done |-> FALSE]
    /\ req = [done |-> FALSE]
    /\ conv \in [made : {<<>>},
                 given : {SCIMException(cls, detail) :
                             cls \in {"SCIMException", "InvalidPathException",
                                      "PathNotFoundException", "UniquenessException"},
                             detail \in {None, "d"}}
                         \cup [t : {"error"},
                               status : {400, 404, 409, 500},
                               scim_type : {None, "invalidPath", "uniqueness",
                                            "unknownType"},
                               detail : {None, "d"}]
                         \cup [t : {"paths"},
                               self : {"userName", "USERNAME", "username",
                                       "nickName", "emails.value", "EMAILS.VALUE"},
                               other : {"userName", "USERNAME", "username",
                                        "nickName", "emails.value", "EMAILS.VALUE"}]]

\* exc.to_error(), on the exception given or on the one from_error made
ToError ==
    /\ status = "idle"
    /\ conv.given.t \in {"exception", "error"}
    /\ Len(conv.made) < 2
    /\ LET exc == IF conv.made = <<>> THEN conv.given ELSE conv.made[Len(conv.made)]
       IN  /\ exc.t = "exception"
           /\ conv' = [conv EXCEPT !.made = Append(@, to_error(exc))]
    /\ UNCHANGED <<resource, operations, idx, modified, status, result, res0, log, ser, validation, req>>

\* SCIMException.from_error(error), on the Error given or on the one
\* to_error made
FromError ==
    /\ status = "idle"
    /\ conv.given.t \in {"exception", "error"}
    /\ Len(conv.made) < 2
    /\ LET error == IF conv.made = <<>> THEN conv.given ELSE conv.made[Len(conv.made)]
       IN  /\ error.t = "error"
           /\ conv' = [conv EXCEPT !.made = Append(@, from_error(error))]
    /\ UNCHANGED <<resource, operations, idx, modified, status, result, res0, log, ser, validation, req>>

\* Path(self) == Path(other)
ComparePaths ==
    /\ status = "idle"
    /\ conv.made = <<>>
    /\ conv.given.t = "paths"
    /\ conv' = [conv EXCEPT !.made = <<__eq__(conv.given.self, conv.given.other)>>]
    /\ UNCHANGED <<resource, operations, idx, modified, status, result, res0, log, ser, validation, req>>

NextConvert == ToError \/ FromError \/ ComparePaths

SpecConvert == InitConvert /\ [][NextConvert]_vars

----------------------------------------------------------------------------
(* Reading the history *)

\* The operations applied one after the other, each to the resource the
\* earlier ones left.
RECURSIVE ApplySeq(_, _)
ApplySeq(res, ops) ==
    IF ops = <<>> THEN res
    ELSE ApplySeq(_apply_operation(res, Head(ops)).res, Tail(ops))

\* the resource before and after the k-th applied operation
Before(k) == IF k = 1 THEN res0 ELSE log[k - 1].res
After(k) == log[k].res

\* indices of the elements of a primary-bearing collection with primary = true
PrimaryIdx(res) == {k \in 1..Len(res.emails.items) : res.emails.items[k].primary}

\* the indices that are primary after and were not before
NewPrimaryIdx(before, after) == PrimaryIdx(after) \ PrimaryIdx(before)

\* the k-th entry of the log is an add or replace applied by patch
IsAddReplace(k) ==
    /\ status \in {"running", "returned", "raised"}
    /\ operations[k].op \in {"add", "replace"}

----------------------------------------------------------------------------
(* Primary exclusivity *)

\* C1 (as the claim states it, for a resource that held at most one primary
\* element when patch was called): after a patch that returned, the emails
\* collection holds at most one element with primary = true.
C1_PrimaryExclusiveAfterPatch ==
    (status = "returned" /\ Cardinality(PrimaryIdx(res0)) <= 1)
        => Cardinality(PrimaryIdx(resource)) <= 1

\* C7 (as the claim states it): when an applied add or replace leaves more
\* than one primary element and exactly one of them is newly primary, that
\* one is the only primary element left.
C7_NewPrimaryWins ==
    \A k \in 1..Len(log) :
        (/\ IsAddReplace(k)
         /\ log[k].err = ""
         /\ Cardinality(NewPrimaryIdx(Before(k), After(k))) = 1)
            => PrimaryIdx(After(k)) = NewPrimaryIdx(Before(k), After(k))

\* C8 (as the claim states it): an add or replace that makes more than one
\* element newly primary raises.
C8_SeveralNewPrimariesRaise ==
    \A k \in 1..Len(log) :
        (IsAddReplace(k) /\ Cardinality(NewPrimaryIdx(Before(k), After(k))) > 1)
            => log[k].err # ""

\* C9 (as the claim states it): an add or replace on a collection that
\* already held several primary elements, and still does, raises when it
\* brings no new primary.
C9_PreexistingPrimariesRaise ==
    \A k \in 1..Len(log) :
        (/\ IsAddReplace(k)
         /\ Cardinality(PrimaryIdx(Before(k))) > 1
         /\ Cardinality(PrimaryIdx(After(k))) > 1
         /\ NewPrimaryIdx(Before(k), After(k)) = {})
            => log[k].err # ""

----------------------------------------------------------------------------
(* The loop of patch *)

\* C2: as long as nothing raised, the resource is the initial resource with
\* the operations before the loop position applied one after the other in
\* list order, and one operation was applied per position passed.
C2_OperationsInListOrder ==
    status # "raised" =>
        /\ Len(log) = idx - 1
        /\ resource = ApplySeq(res0, SubSeq(operations, 1, idx - 1))

\* two operations whose order matters were both applied
C2_Witness ==
    /\ status = "returned"
    /\ Len(operations) = 2
    /\ log[1].changed /\ log[2].changed
    /\ resource # ApplySeq(res0, <<operations[2], operations[1]>>)

\* C3: when operation k raised, the loop stays at k: k operations were
\* tried, none after k, and the resource is what the operations before k
\* made of it, together with whatever operation k did before it raised.
C3_ErrorAbortsWithoutRollback ==
    status = "raised" =>
        /\ Len(log) = idx
        /\ log[idx].err # ""
        /\ \A k \in 1..(idx - 1) : log[k].err = ""
        /\ Before(idx) = ApplySeq(res0, SubSeq(operations, 1, idx - 1))
        /\ resource = _apply_operation(Before(idx), operations[idx]).res

\* the second operation raised after the first changed the resource, and an
\* operation is left unapplied behind neither
C3_Witness ==
    /\ status = "raised"
    /\ idx = 2
    /\ log[1].changed
    /\ resource # res0
    /\ resource = log[1].res

\* C4: patch returns the OR of the changed flags of its operations, false
\* for an empty list.
C4_ReturnsOrOfFlags ==
    status = "returned" =>
        /\ result = (\E k \in 1..Len(log) : log[k].changed)
        /\ Len(log) = Len(operations)
        /\ (operations = <<>> => result = FALSE)

\* true is returned although the last operation changed nothing
C4_Witness ==
    /\ status = "returned"
    /\ result = TRUE
    /\ Len(log) = 2
    /\ log[1].changed /\ ~log[2].changed

----------------------------------------------------------------------------
(* Applying an operation twice *)

SameTwice == Len(operations) = 2 /\ operations[1] = operations[2]

\* C5: a remove applied a second time right after itself reports
\* changed = false, raises nothing and leaves the resource as the first
\* application left it.
C5_RemoveIdempotent ==
    (SameTwice /\ operations[1].op = "remove" /\ Len(log) = 2)
        => /\ log[2].err = ""
           /\ log[2].changed = FALSE
           /\ After(2) = After(1)

\* a remove that removed something was applied again
C5_Witness ==
    /\ SameTwice /\ operations[1].op = "remove" /\ Len(log) = 2
    /\ log[1].changed
    /\ After(1) # res0

\* C6 (as the claim states it): an add to the multi-valued attribute applied
\* a second time right after itself reports changed = false and leaves the
\* collection as the first application left it.
C6_AddTwiceNoDuplicate ==
    (/\ SameTwice /\ operations[1].op = "add"
     /\ operations[1].path = EmailsPath
     /\ Len(log) = 2 /\ log[2].err = "")
        => /\ log[2].changed = FALSE
           /\ After(2).emails = After(1).emails

----------------------------------------------------------------------------
(* Returned.never *)

Dumped == ser.done /\ ser.returnability = "never"

\* C10 (as the claim states it): a field annotated returned = never is in
\* the dumped output under no context, whatever the lists.
C10_NeverOmittedInEveryContext ==
    Dumped => "f" \notin ser.out

\* C10 (amended): a field annotated returned = never is in the dumped output
\* under no response context, whatever the attributes and excluded
\* attributes lists.
C10_NeverOmittedInResponses ==
    (Dumped /\ is_response(ser.scim_ctx)) => "f" \notin ser.out

\* a set never field, named in the attributes list, dumped for a response
C10_Witness ==
    /\ Dumped /\ is_response(ser.scim_ctx)
    /\ ser.value # None
    /\ FieldUrn \in ser.attributes
    /\ ser.out = {}

----------------------------------------------------------------------------
(* Returned.default and Returned.always in responses *)

ResponseDump == ser.done /\ ser.scim_ctx # None /\ is_response(ser.scim_ctx)

\* C11 (as the claim states it), for the sub-attribute f.sub of an emitted
\* f: in a response it is left out whenever its URN or the URN of f is in the
\* excluded list, or the included list is non-empty and names it not.
C11_DefaultOmittedByExcludedAncestor ==
    (ResponseDump /\ ser.sub # None /\ "f" \in ser.out)
        => ("f.sub" \notin ser.out
               <=> \/ SubUrn \in ser.excluded_attributes
                   \/ FieldUrn \in ser.excluded_attributes
                   \/ /\ ser.attributes # {}
                      /\ SubUrn \notin ser.attributes)

\* C11 (amended): in a response a set returned = default field is left out
\* exactly when its own URN is in the excluded list, or the included list is
\* non-empty and holds neither its URN nor the URN of a sub-attribute of it;
\* a sub-attribute is also left out with the attribute that holds it.
C11_DefaultOmittedByOwnUrn ==
    /\ (ResponseDump /\ ser.value # None /\ ser.returnability = "default")
          => ("f" \notin ser.out
                 <=> \/ FieldUrn \in ser.excluded_attributes
                     \/ /\ ser.attributes # {}
                        /\ FieldUrn \notin ser.attributes
                        /\ SubUrn \notin ser.attributes)
    /\ (ResponseDump /\ ser.sub # None)
          => ("f.sub" \notin ser.out
                 <=> \/ "f" \notin ser.out
                     \/ SubUrn \in ser.excluded_attributes
                     \/ /\ ser.attributes # {}
                        /\ SubUrn \notin ser.attributes)

\* a default f, named in no list, dumped with its sub-attribute because the
\* included list names the sub-attribute
C11_Witness ==
    /\ ResponseDump
    /\ ser.returnability = "default"
    /\ ser.attributes = {SubUrn}
    /\ ser.excluded_attributes = {OtherUrn}
    /\ ser.out = {"f", "f.sub"}

\* C12 (as the claim states it): a response dump of a resource whose
\* returned = always field is None does not return output.
C12_AlwaysMissingRaisesOnDump ==
    (ser.scim_ctx # None /\ is_response(ser.scim_ctx)
     /\ ser.returnability = "always" /\ ser.value = None)
        => ~ser.done

\* C12 (amended): a response dump of a resource whose returned = always
\* field is None returns output without that field; a set always field is in
\* the output whatever the lists.
C12_AlwaysMissingOmittedOnDump ==
    (ResponseDump /\ ser.returnability = "always")
        => ("f" \in ser.out <=> ser.value # None)

\* an absent always field, named in the included list, dumped for a response
C12_Witness ==
    /\ ResponseDump
    /\ ser.returnability = "always"
    /\ ser.value = None
    /\ FieldUrn \in ser.attributes
    /\ ser.out = {}

----------------------------------------------------------------------------
(* Validation of a resource payload in request contexts *)

\* C13: the validation of a creation-request payload that carries a value
\* for a readOnly field is rejected with a mutability error.
C13_ReadOnlyRejectedInCreation ==
    (validation.done /\ validation.scim_ctx = "RESOURCE_CREATION_REQUEST"
     /\ validation.mutability = "readOnly" /\ validation.payload \in {"x", "y"})
        => validation.err = "mutability_error"

\* C14: the validation in creation-request, replacement-request or
\* patch-request context is rejected whenever the required field is missing
\* or null.
C14_RequiredMissingRejected ==
    (validation.done
     /\ validation.scim_ctx \in {"RESOURCE_CREATION_REQUEST",
                          "RESOURCE_REPLACEMENT_REQUEST",
                          "RESOURCE_PATCH_REQUEST"}
     /\ validation.required /\ validation.payload \in {"absent", None})
        => validation.err # ""

----------------------------------------------------------------------------
(* Validation of a PatchOp bound to a resource type *)

\* The fields of the bound class the operation addresses: its path has one
\* segment that stands for the field, in any spelling, with or without the
\* schema of the class.
AddressedFields(o) ==
    IF req.resource_class = None THEN {}
    ELSE {k \in ModelFieldKeys(req.resource_class) :
             /\ o.path.has
             /\ o.path.urn \in {"", CoreSchema}
             /\ Len(o.path.parts) = 1
             /\ FindFieldKey(req.resource_class, o.path.parts[1]) = k}

\* C16: the validation of a bound PatchOp is rejected with a mutability
\* error whenever an add or replace operation addresses a readOnly
\* attribute of the bound type.
C16_ReadOnlyTargetRejected ==
    /\ (req.done
        /\ \E k \in 1..Len(operations) :
              /\ operations[k].op \in {"add", "replace"}
              /\ \E f \in AddressedFields(operations[k]) :
                    FieldMutability(req.resource_class, f) = "readOnly")
          => req.err # ""
    /\ (req.done /\ Len(operations) = 1
        /\ operations[1].op \in {"add", "replace"}
        /\ operations[1].value # NoneV
        /\ \E f \in AddressedFields(operations[1]) :
              FieldMutability(req.resource_class, f) = "readOnly")
          => req.err = "mutability"

\* C17: the validation rejects with a mutability error a replace operation
\* that addresses an immutable attribute, and accepts an add operation on
\* the same attribute.
C17_ImmutableReplaceRejectedAddAccepted ==
    (req.done /\ Len(operations) = 1
     /\ operations[1].value # NoneV
     /\ \E f \in AddressedFields(operations[1]) :
           FieldMutability(req.resource_class, f) = "immutable")
        => /\ operations[1].op = "replace" => req.err = "mutability"
           /\ operations[1].op = "add" => req.err = ""

\* C18: the validation rejects with an invalid-value error every remove
\* operation that addresses a required attribute of the bound type.
C18_RequiredRemoveRejected ==
    /\ (req.done
        /\ \E k \in 1..Len(operations) :
              /\ operations[k].op = "remove"
              /\ \E f \in AddressedFields(operations[k]) :
                    FieldRequired(req.resource_class, f))
          => req.err # ""
    /\ (req.done /\ Len(operations) = 1
        /\ operations[1].op = "remove"
        /\ \E f \in AddressedFields(operations[1]) :
              FieldRequired(req.resource_class, f))
          => req.err = "invalidValue"

----------------------------------------------------------------------------
(* A remove operation without a path *)

RemoveWithoutPath(o) == o.op = "remove" /\ ~o.path.has

----------------------------------------------------------------------------
(* Paths under an unknown schema URN *)

\* C20: a get, a set, a delete or a patch operation through a path whose
\* schema URN is neither the schema of the resource nor one of its
\* extensions raises an invalid-path error: it returns no value and no
\* changed flag, and it leaves the resource as it was.
C20_UnknownUrnRaises ==
    \A k \in 1..Len(log) :
        (/\ operations[k].path.has /\ operations[k].path.urn # ""
         /\ operations[k].path.urn \notin {CoreSchema, ExtSchema})
            => /\ log[k].err = "invalidPath"
               /\ ~log[k].changed
               /\ After(k) = Before(k)
               /\ status \in {"raised", "call raised"}
               /\ k = Len(log)

----------------------------------------------------------------------------
(* The changed flag and the frame of one operation *)

\* C25: a patch of one operation returns true exactly when the resource it
\* leaves differs from the resource it was given; an operation that reports
\* unchanged has modified nothing.
C25_ChangedIffResourceDiffers ==
    (status = "returned" /\ Len(operations) = 1)
        => (result <=> resource # res0)

\* C26: a replace (or a set) applied a second time right after itself
\* reports changed = false, whatever the target: the value it carries is by
\* then the value of the attribute.
C26_ReplaceTwiceUnchanged ==
    (/\ SameTwice /\ operations[1].op = "replace" /\ Len(log) = 2
     /\ log[1].err = "" /\ log[2].err = "")
        => log[2].changed = FALSE

\* C27: a get or a remove creates nothing: an extension slot or a complex
\* attribute that was absent before the call is absent after it.
C27_ReadAndRemoveCreateNothing ==
    (Len(operations) = 1 /\ Len(log) = 1 /\ operations[1].op \in {"get", "remove"})
        => /\ ~res0.ext.present => ~resource.ext.present
           /\ ~res0.name.present => ~resource.name.present
           /\ ~res0.emails.present => ~resource.emails.present

----------------------------------------------------------------------------
(* Segments after a multi-valued attribute *)

\* C28: a get, a set or a delete (and an add, a replace or a remove of a
\* patch) through emails.value raises no exception other than a path error
\* and leaves the resource as it was, reporting no change.
C28_NoDescentIntoCollection ==
    (Len(operations) = 1 /\ Len(log) = 1 /\ operations[1].path = EmailValuePath)
        => /\ log[1].err \in {"", "invalidPath", "noTarget"}
           /\ ~log[1].changed
           /\ resource = res0

----------------------------------------------------------------------------
(* Routing by the schema URN *)

\* C30: a path whose text starts with the URN of the extension followed by
\* other characters is not routed to the extension: the call fails with an
\* invalid-path error, as for every URN that names no schema of the
\* resource, and the extension is neither read nor created.
C30_RoutedOnlyOnExactUrn ==
    (Len(operations) = 1 /\ Len(log) = 1 /\ operations[1].path.urn = BeyondSchema)
        => /\ log[1].err = "invalidPath"
           /\ resource = res0

----------------------------------------------------------------------------
(* Spellings of an attribute name *)

\* C21: a get, a set, a delete (and an add, a replace, a remove of a patch)
\* through n.upper(), n.lower() or toCamel(n) reads and writes the field n:
\* whatever the spelling of nick_name, and of name.family_name on a resource
\* with a name, the call succeeds, a get returns the value of the field, a
\* write leaves the value in the field and a delete leaves it None, and
\* nothing else changes.
C21_SpellingsResolveAlike ==
    (Len(operations) = 1 /\ Len(log) = 1 /\ operations[1].path.has
     /\ operations[1].path.urn = "")
        => LET o == operations[1]
               parts == o.path.parts
               written == IF o.op = "remove" THEN None ELSE o.value.s
           IN  /\ (Len(parts) = 1 /\ parts[1] \in Spellings("nick_name"))
                    => /\ log[1].err = ""
                       /\ IF o.op = "get"
                          THEN log[1].got = ScalarV(res0.nickName) /\ resource = res0
                          ELSE resource = [res0 EXCEPT !.nickName = written]
               /\ (/\ Len(parts) = 2 /\ parts[1] \in Spellings("name")
                   /\ parts[2] \in Spellings("family_name") /\ res0.name.present)
                    => /\ log[1].err = ""
                       /\ IF o.op = "get"
                          THEN log[1].got = ScalarV(res0.name.familyName) /\ resource = res0
                          ELSE resource = [res0 EXCEPT !.name.familyName = written]

\* the family name was written by a set through NAME.FAMILY_NAME
C21_Witness ==
    /\ Len(operations) = 1 /\ Len(log) = 1
    /\ operations[1] = Op("replace", Path("", <<"NAME", "FAMILY_NAME">>), StrV("b"))
    /\ status = "calling"
    /\ res0.name.familyName = "a"
    /\ resource.name.familyName = "b"

----------------------------------------------------------------------------
(* The schemas list of a dumped resource *)

\* C22: the schemas list a dump emits is the URN of the resource followed by
\* the URN of the extension when the instance holds the extension, and by
\* nothing when it does not.
C22_SchemasRootPlusPresentExtensions ==
    ser.done
        => ser.schemas_out
               = <<CoreSchema>> \o (IF resource.ext.present THEN <<ExtSchema>> ELSE <<>>)

----------------------------------------------------------------------------
(* Errors and Error messages; equality of paths *)

\* C23: an exception converted to an Error message and back, and an Error
\* message converted to an exception and back, has the kind (scimType), the
\* HTTP status and the detail it had.
C23_ErrorRoundTripLossless ==
    (Len(conv.made) = 2)
        => LET kind(x) == IF x.scim_type = "" THEN None ELSE x.scim_type
           IN  /\ kind(conv.made[2]) = kind(conv.given)
               /\ conv.made[2].status = conv.given.status
               /\ conv.made[2].detail = conv.given.detail

\* C24: two paths compare equal exactly when their texts are equal once
\* both are put in lower case.
C24_PathEqualityFoldsCase ==
    (conv.made # <<>> /\ conv.given.t = "paths")
        => (conv.made[1] <=> lower(conv.given.self) = lower(conv.given.other))

====
